---- MODULE Spec2Model ----
(***************************************************************************)
(* Model of the Sparkify data-lake repository:                             *)
(*   - biapp/core/operators/s3.py  S3Operator.create_bucket / deploy_code  *)
(*   - deploy.py and biapp/core/deploy.py, the two deploy entry points     *)
(*   - biapp/etl.py, the ETL driver (song pipeline, then log pipeline)     *)
(* Strings that the code manipulates (paths, keys) are sequences of        *)
(* one-character strings, so that str.replace, os.path.join, glob and      *)
(* os.path.basename are computed, not assumed.                             *)
(***************************************************************************)
EXTENDS Integers, Sequences, FiniteSets, TLC

\* ------------------------------------------------------------------ bounds
MaxFiles == 2
MaxDepth == 3
MaxDup == 2
MaxRuns == 2

\* ------------------------------------------------- python string functions
RECURSIVE Concat(_)
Concat(ss) == IF ss = <<>> THEN <<>> ELSE Head(ss) \o Concat(Tail(ss))

\* s[m..n], a python slice
Slice(s, m, n) == [i \in 1..(n - m + 1) |-> s[m + i - 1]]

\* s[i..] starts with p
MatchAt(s, p, i) ==
    /\ i + Len(p) - 1 <= Len(s)
    /\ \A k \in 1..Len(p) : s[i + k - 1] = p[k]

EndsWith(s, p) == Len(p) <= Len(s) /\ MatchAt(s, p, Len(s) - Len(p) + 1)

\* str.replace(old, new): every non-overlapping occurrence, left to right
RECURSIVE ReplaceFrom(_, _, _, _)
ReplaceFrom(s, old, new, i) ==
    IF i > Len(s) THEN <<>>
    ELSE IF MatchAt(s, old, i)
         THEN new \o ReplaceFrom(s, old, new, i + Len(old))
         ELSE <<s[i]>> \o ReplaceFrom(s, old, new, i + 1)

StrReplace(s, old, new) == ReplaceFrom(s, old, new, 1)

\* the separators os.path recognises: os.sep, and '/' as os.altsep on Windows
IsSep(c, sep) == c = sep \/ (sep = "\\" /\ c = "/")

\* a drive prefix ("C:") makes a Windows path absolute
HasDrive(p, sep) == sep = "\\" /\ Len(p) >= 2 /\ p[2] = ":"

IsAbs(p, sep) == HasDrive(p, sep) \/ (Len(p) >= 1 /\ IsSep(p[1], sep))

\* os.path.join(a, b)
OsPathJoin(a, b, sep) ==
    IF IsAbs(b, sep) THEN b
    ELSE IF a = <<>> \/ IsSep(a[Len(a)], sep) THEN a \o b
    ELSE a \o <<sep>> \o b

\* os.path.basename(p): what follows the last separator
LastSepIndex(p, sep) ==
    LET idx == {i \in 1..Len(p) : IsSep(p[i], sep)}
    IN  IF idx = {} THEN 0 ELSE CHOOSE i \in idx : \A j \in idx : j <= i

OsPathBasename(p, sep) == Slice(p, LastSepIndex(p, sep) + 1, Len(p))

\* fnmatch of a name against the glob pattern '*.<ext>': glob never lets a
\* leading '*' match a name that starts with a dot
GlobMatch(name, ext) ==
    /\ EndsWith(name, <<".">> \o ext)
    /\ name[1] # "."

\* ------------------------------------------------------- the file system
Names == {"a", "b"}

FileNames == { <<"x", ".", "p", "y">>,
               <<"y", ".", "c", "f", "g">>,
               <<"z", ".", "t", "x", "t">>,
               <<".", "h", ".", "p", "y">> }

\* directories, as sequences of component names below the working directory:
\* a chain of directories named a, each level of which may also hold a b
DirPaths == { d \in UNION { [1..n -> Names] : n \in 0..MaxDepth } :
                \A i \in 1..(Len(d) - 1) : d[i] = "a" }

Seps == {"/", "\\"}

\* os.getcwd(): "/" or "/a" on POSIX, "C:\" or "C:\a" on Windows
Cwds(sep) ==
    LET drive == IF sep = "\\" THEN <<"C", ":">> ELSE <<>>
    IN  { drive \o <<sep>>, drive \o <<sep, "a">> }

\* the order in which os.scandir lists a directory is the file system's
NameSeq == <<"a", "b">>

FileNameSeq == << <<".", "h", ".", "p", "y">>,
                  <<"x", ".", "p", "y">>,
                  <<"y", ".", "c", "f", "g">>,
                  <<"z", ".", "t", "x", "t">> >>

Reverse(s) == [i \in 1..Len(s) |-> s[Len(s) + 1 - i]]

Listing(s, rev) == IF rev THEN Reverse(s) ELSE s

\* file trees of at most n regular files, none deeper than depth
Placements(depth) == { [dir |-> d, name |-> nm] : d \in {p \in DirPaths : Len(p) <= depth},
                                                    nm \in FileNames }

RECURSIVE SubsetsUpTo(_, _)
SubsetsUpTo(S, n) ==
    IF n = 0 THEN {{}}
    ELSE LET smaller == SubsetsUpTo(S, n - 1)
         IN  smaller \cup { fs \cup {x} : fs \in smaller, x \in S }

Trees(depth, n) == SubsetsUpTo(Placements(depth), n)

BucketNames == {"b1", "b2"}

\* errors of the provider other than BucketAlreadyOwnedByYou
ProviderErrors == {"AccessDenied", "BucketAlreadyExists"}

VARIABLES
    os_sep,        \* os.sep of the platform
    cwd,           \* os.getcwd()
    files,         \* regular files below cwd: [dir, name]
    scanRev,       \* listing order of the file system
    entry,         \* which caller runs: a deploy script, or deploy_code alone
    codeBucket,    \* configured name of the code bucket
    lakeBucket,    \* configured name of the data-lake output bucket
    owned,         \* buckets the caller owns at the provider
    spc,           \* position of the deploy run
    calls,         \* steps entered so far, in order
    plan,          \* what deploy_code's loops will visit: its upload_file calls, in order
    idx,           \* next entry of plan
    uploads,       \* upload_file calls that succeeded: [file, src, bucket, key]
    attempts,      \* upload_file calls made: [file, src, bucket, key]
    s3err,         \* exception that left the run ("none" if none)
    exitCode,      \* exit status of the process (-1 while it runs)
    faults,        \* provider calls that failed so far
    log            \* logger output: [level, msg]

svars == <<os_sep, cwd, files, scanRev, entry, codeBucket, lakeBucket, owned,
           spc, calls, plan, idx, uploads, attempts, s3err, exitCode, faults, log>>

VARIABLES
    S3_INPUT_DATA,   \* configured input root
    S3_OUTPUT_DATA,  \* configured output root
    S3_DATA_LAKE,    \* configured data-lake name
    run,             \* which invocation of the ETL script this is
    epc,             \* 0 before main()'s first statement, then the index of the next stage
    estatus,         \* "running", "done" or "raised"
    output_data,     \* main()'s local: the output path handed to both pipelines
    df,              \* the staged table of the current pipeline
    clean_df,        \* the table the last transformation produced
    shown,           \* the table the last profiling query produced
    etrace,          \* stage calls made by this run, in order
    eerr,            \* exception that left the process ("none" if none)
    eexit,           \* exit status of the process (-1 while it runs)
    pastWrites       \* write_parquet_files calls of earlier runs: [table, given, partition]

evars == <<S3_INPUT_DATA, S3_OUTPUT_DATA, S3_DATA_LAKE, run, epc, estatus, output_data,
           df, clean_df, shown, etrace, eerr, eexit, pastWrites>>

vars == <<svars, evars>>

\* ------------------------------------------------ S3Operator.deploy_code
\* directory = f'{os.path.join(os.getcwd())}{os.sep}'
Directory(c, sep) == c \o <<sep>>

extensions == << <<"c", "f", "g">>, <<"p", "y">> >>

\* directories that exist: every prefix of a file's directory
Dirs(fs) == UNION { { Slice(f.dir, 1, n) : n \in 0..Len(f.dir) } : f \in fs } \cup {<<>>}

\* the path os.walk reports for directory d: top joined with each component
RECURSIVE RootStr(_, _, _)
RootStr(d, top, sep) ==
    IF d = <<>> THEN top
    ELSE OsPathJoin(RootStr(Slice(d, 1, Len(d) - 1), top, sep), <<d[Len(d)]>>, sep)

\* os.walk(top), top-down: a directory, then each sub-directory in listing order
RECURSIVE Walk(_, _, _)
Walk(d, fs, rev) ==
    LET order == Listing(NameSeq, rev)
        sub   == [i \in 1..Len(order) |->
                    IF Append(d, order[i]) \in Dirs(fs)
                    THEN Walk(Append(d, order[i]), fs, rev)
                    ELSE <<>>]
    IN  <<d>> \o Concat(sub)

\* glob.glob(os.path.join(root, f'*.{ext}')): the matching files of directory d
Glob(d, ext, fs, rev) ==
    LET order == Listing(FileNameSeq, rev)
        hit   == [i \in 1..Len(order) |->
                    IF [dir |-> d, name |-> order[i]] \in fs /\ GlobMatch(order[i], ext)
                    THEN << [dir |-> d, name |-> order[i]] >>
                    ELSE <<>>]
    IN  Concat(hit)

\* relative_path = root.replace(directory, '')
RelativePath(root, directory) == StrReplace(root, directory, <<>>)

\* s3_path = os.path.join(relative_path, filename).replace(os.sep, '/')
S3Path(root, f, directory, sep) ==
    StrReplace(OsPathJoin(RelativePath(root, directory), OsPathBasename(f, sep), sep),
               <<sep>>, <<"/">>)

\* one upload_file call of the loop body, for file g found by glob under root
UploadCall(g, c, sep, bucket) ==
    LET directory == Directory(c, sep)
        root      == RootStr(g.dir, directory, sep)
        f         == OsPathJoin(root, g.name, sep)
    IN  [file |-> g, src |-> OsPathJoin(root, f, sep), bucket |-> bucket,
         key |-> S3Path(root, f, directory, sep)]

\* for ext in extensions: for root in os.walk(directory): for f in glob(...)
UploadPlan(fs, c, sep, rev, bucket) ==
    LET walk == Walk(<<>>, fs, rev)
        perExt(ext) ==
            Concat([i \in 1..Len(walk) |->
                LET found == Glob(walk[i], ext, fs, rev)
                IN  [k \in 1..Len(found) |-> UploadCall(found[k], c, sep, bucket)]])
    IN  Concat([e \in 1..Len(extensions) |-> perExt(extensions[e])])

\* ------------------------------------------------------- call binding
\* python binds a keyword argument only to a parameter of that name;
\* any other keyword raises TypeError before the body runs
CreateBucketParams == {"bucket_name"}

DeployCodeParams == {"bucket"}

Binds(kw, params) == kw \in params

EntryPoints == {"deploy.py", "biapp/core/deploy.py"}

\* keyword that main() passes to create_bucket
CreateBucketKeyword(e) == IF e = "deploy.py" THEN "bucket" ELSE "bucket_name"

\* keyword that main() passes to deploy_code
DeployCodeKeyword(e) == "bucket"

\* errors of the identity and cluster services
ServiceErrors == {"ClientError"}

Call(step, arg, provider, outcome) ==
    [step |-> step, arg |-> arg, provider |-> provider, outcome |-> outcome]

\* an exception leaves main(): the interpreter prints the trace and exits non-zero
Uncaught(e) ==
    /\ s3err' = e
    /\ spc' = "raised"
    /\ exitCode' = 1

\* --------------------------------------------------------- deploy main()
\* iam.create_role()
CreateRole ==
    /\ UNCHANGED evars
    /\ spc = "create_role"
    /\ \/ /\ calls' = Append(calls, Call("create_role", "", "ok", "returned"))
          /\ spc' = "attach_role_policies"
          /\ UNCHANGED <<s3err, exitCode, faults>>
       \/ \E e \in ServiceErrors :
          /\ calls' = Append(calls, Call("create_role", "", e, "raised"))
          /\ faults' = Append(faults, e)
          /\ Uncaught(e)
    /\ UNCHANGED <<os_sep, cwd, files, scanRev, entry, codeBucket, lakeBucket, owned,
                   plan, idx, uploads, attempts, log>>

\* iam.attach_role_policies()
AttachRolePolicies ==
    /\ UNCHANGED evars
    /\ spc = "attach_role_policies"
    /\ \/ /\ calls' = Append(calls, Call("attach_role_policies", "", "ok", "returned"))
          /\ spc' = "create_bucket_code"
          /\ UNCHANGED <<s3err, exitCode, faults>>
       \/ \E e \in ServiceErrors :
          /\ calls' = Append(calls, Call("attach_role_policies", "", e, "raised"))
          /\ faults' = Append(faults, e)
          /\ Uncaught(e)
    /\ UNCHANGED <<os_sep, cwd, files, scanRev, entry, codeBucket, lakeBucket, owned,
                   plan, idx, uploads, attempts, log>>

\* variant: the except clause matches no provider error
CaughtNothing(e) == FALSE

\* variant: except Exception, which swallows every provider error
CaughtAll(e) == TRUE

\* except self.client.exceptions.BucketAlreadyOwnedByYou
Caught(e) == e = "BucketAlreadyOwnedByYou"

\* what self.client.create_bucket can answer for a bucket name
CreateBucketAnswers(name) ==
    (IF name \in owned THEN {"BucketAlreadyOwnedByYou"} ELSE {"ok"}) \cup ProviderErrors

\* S3Operator.create_bucket, called by main() with keyword kw; next is main's
\* following statement
CreateBucket(step, name, next) ==
    /\ UNCHANGED evars
    /\ spc = step
    /\ IF ~Binds(CreateBucketKeyword(entry), CreateBucketParams)
       THEN /\ calls' = Append(calls, Call("create_bucket", name, "none", "raised"))
            /\ Uncaught("TypeError")
            /\ UNCHANGED <<owned, faults, log>>
       ELSE \E r \in CreateBucketAnswers(name) :
            IF r = "ok"
            THEN /\ owned' = owned \cup {name}
                 /\ log' = Append(log, [level |-> "INFO", msg |-> "created", bucket |-> name])
                 /\ calls' = Append(calls, Call("create_bucket", name, r, "returned"))
                 /\ spc' = next
                 /\ UNCHANGED <<s3err, exitCode, faults>>
            ELSE IF Caught(r)
            THEN /\ log' = Append(log, [level |-> "INFO", msg |-> "already exists!",
                                        bucket |-> name])
                 /\ calls' = Append(calls, Call("create_bucket", name, r, "returned"))
                 /\ faults' = Append(faults, r)
                 /\ spc' = next
                 /\ UNCHANGED <<s3err, exitCode, owned>>
            ELSE /\ calls' = Append(calls, Call("create_bucket", name, r, "raised"))
                 /\ faults' = Append(faults, r)
                 /\ Uncaught(r)
                 /\ UNCHANGED <<owned, log>>
    /\ UNCHANGED <<os_sep, cwd, files, scanRev, entry, codeBucket, lakeBucket,
                   plan, idx, uploads, attempts>>

\* s3.create_bucket(<code bucket>)
CreateCodeBucket == CreateBucket("create_bucket_code", codeBucket, "create_bucket_lake")

\* s3.create_bucket(<data-lake output bucket>)
CreateLakeBucket == CreateBucket("create_bucket_lake", lakeBucket, "call_deploy_code")

\* ------------------------------------------------ deploy_code, its loops
\* except Exception as err: raise(err)
Reraise(err) == err

\* where control goes when deploy_code returns
AfterDeployCode(e) == IF e = "deploy_code" THEN "returned" ELSE "create_emr_cluster"

SetLastOutcome(cs, provider, outcome) ==
    [cs EXCEPT ![Len(cs)] = [@ EXCEPT !.provider = provider, !.outcome = outcome]]

\* s3.deploy_code(bucket=...): the arguments bind, directory and extensions are set
DeployCodeCall ==
    /\ UNCHANGED evars
    /\ spc = "call_deploy_code"
    /\ IF ~Binds(DeployCodeKeyword(entry), DeployCodeParams)
       THEN /\ calls' = Append(calls, Call("deploy_code", codeBucket, "none", "raised"))
            /\ Uncaught("TypeError")
            /\ UNCHANGED <<plan, idx>>
       ELSE /\ calls' = Append(calls, Call("deploy_code", codeBucket, "ok", "running"))
            /\ plan' = UploadPlan(files, cwd, os_sep, scanRev, codeBucket)
            /\ idx' = 1
            /\ spc' = "deploy_code"
            /\ UNCHANGED <<s3err, exitCode>>
    /\ UNCHANGED <<os_sep, cwd, files, scanRev, entry, codeBucket, lakeBucket, owned,
                   uploads, attempts, faults, log>>

\* self.client.upload_file(...) returns; logger.info(f'{s3_path} written to S3')
UploadFile ==
    /\ UNCHANGED evars
    /\ spc = "deploy_code"
    /\ idx <= Len(plan)
    /\ attempts' = Append(attempts, plan[idx])
    /\ uploads' = Append(uploads, plan[idx])
    /\ log' = Append(log, [level |-> "INFO", msg |-> "written to S3", bucket |-> codeBucket])
    /\ idx' = idx + 1
    /\ UNCHANGED <<os_sep, cwd, files, scanRev, entry, codeBucket, lakeBucket, owned,
                   plan, spc, calls, s3err, exitCode, faults>>

\* variant: the except clause logs the error and the loop goes on
UploadFileFailsContinue ==
    /\ UNCHANGED evars
    /\ spc = "deploy_code"
    /\ idx <= Len(plan)
    /\ \E e \in ProviderErrors : faults' = Append(faults, e)
    /\ attempts' = Append(attempts, plan[idx])
    /\ idx' = idx + 1
    /\ UNCHANGED <<os_sep, cwd, files, scanRev, entry, codeBucket, lakeBucket, owned,
                   plan, spc, calls, uploads, s3err, exitCode, log>>

\* self.client.upload_file(...) raises: the except clause re-raises
UploadFileFails ==
    /\ UNCHANGED evars
    /\ spc = "deploy_code"
    /\ idx <= Len(plan)
    /\ \E e \in ProviderErrors :
         /\ Uncaught(Reraise(e))
         /\ faults' = Append(faults, e)
         /\ calls' = SetLastOutcome(calls, e, "raised")
    /\ attempts' = Append(attempts, plan[idx])
    /\ UNCHANGED <<os_sep, cwd, files, scanRev, entry, codeBucket, lakeBucket, owned,
                   plan, idx, uploads, log>>

\* the loops are exhausted: deploy_code returns None
DeployCodeReturn ==
    /\ UNCHANGED evars
    /\ spc = "deploy_code"
    /\ idx > Len(plan)
    /\ spc' = AfterDeployCode(entry)
    /\ calls' = SetLastOutcome(calls, "ok", "returned")
    /\ UNCHANGED <<os_sep, cwd, files, scanRev, entry, codeBucket, lakeBucket, owned,
                   plan, idx, uploads, attempts, s3err, exitCode, faults, log>>

\* emr.create_emr_cluster(); main() returns and the process exits with 0
CreateEmrCluster ==
    /\ UNCHANGED evars
    /\ spc = "create_emr_cluster"
    /\ \/ /\ calls' = Append(calls, Call("create_emr_cluster", "", "ok", "returned"))
          /\ spc' = "done"
          /\ exitCode' = 0
          /\ UNCHANGED <<s3err, faults>>
       \/ \E e \in ServiceErrors :
          /\ calls' = Append(calls, Call("create_emr_cluster", "", e, "raised"))
          /\ faults' = Append(faults, e)
          /\ Uncaught(e)
    /\ UNCHANGED <<os_sep, cwd, files, scanRev, entry, codeBucket, lakeBucket, owned,
                   plan, idx, uploads, attempts, log>>

\* the platform and working directory a process starts in
Environment(depth) ==
    /\ os_sep \in Seps
    /\ cwd \in Cwds(os_sep)
    /\ files \in Trees(depth, MaxFiles)
    /\ scanRev \in BOOLEAN

Fresh ==
    /\ calls = <<>>
    /\ plan = <<>>
    /\ idx = 1
    /\ uploads = <<>>
    /\ attempts = <<>>
    /\ s3err = "none"
    /\ exitCode = -1
    /\ faults = <<>>
    /\ log = <<>>

\* the ETL script is not running
EtlIdle ==
    /\ S3_INPUT_DATA = <<>>
    /\ S3_OUTPUT_DATA = <<>>
    /\ S3_DATA_LAKE = <<>>
    /\ run = 0
    /\ epc = 0
    /\ estatus = "idle"
    /\ output_data = <<>>
    /\ df = "none"
    /\ clean_df = "none"
    /\ shown = -1
    /\ etrace = <<>>
    /\ eerr = "none"
    /\ eexit = -1
    /\ pastWrites = {}

\* a direct call of S3Operator.deploy_code(bucket) on any working directory
InitS3 ==
    /\ Environment(MaxDepth)
    /\ entry = "deploy_code"
    /\ codeBucket = "b1"
    /\ lakeBucket = "b2"
    /\ owned = {codeBucket}
    /\ spc = "call_deploy_code"
    /\ Fresh
    /\ EtlIdle

NextS3 == DeployCodeCall \/ UploadFile \/ UploadFileFails \/ DeployCodeReturn

SpecS3 == InitS3 /\ [][NextS3]_vars

\* a run of a deploy script: clients constructed, main() about to start
InitDeploy ==
    /\ Environment(1)
    /\ entry \in EntryPoints
    /\ codeBucket \in BucketNames
    /\ lakeBucket \in BucketNames
    /\ owned \in SUBSET BucketNames
    /\ spc = "create_role"
    /\ Fresh
    /\ EtlIdle

NextDeploy ==
    \/ CreateRole
    \/ AttachRolePolicies
    \/ CreateCodeBucket
    \/ CreateLakeBucket
    \/ DeployCodeCall
    \/ UploadFile
    \/ UploadFileFails
    \/ DeployCodeReturn
    \/ CreateEmrCluster

SpecDeploy == InitDeploy /\ [][NextDeploy]_vars

\* ------------------------------------------------------------ biapp/etl.py
\* the ETL script runs on the cluster: posixpath
EtlSep == "/"

\* paths of the configuration, as sequences of path tokens
InputRoots == { <<"s3a:", "/", "/", "in">> }

OutputRoots == { <<"s3a:", "/", "/", "out">>, <<"s3a:", "/", "/", "out", "/">> }

LakeNames == { <<"lake">>, <<"sparkify">> }

\* errors the engine can raise from a stage
EngineErrors == {"AnalysisException", "Py4JJavaError"}

Stmt(pipeline, op, arg, kind, input, output_path, given, partition) ==
    [pipeline |-> pipeline, op |-> op, arg |-> arg, kind |-> kind, input |-> input,
     output_path |-> output_path, given |-> given, partition |-> partition]

\* the statements of process_song_data(spark, input_data, output_data)
ProcessSongData(input_data, output) ==
    LET path == OsPathJoin(input_data,
                           <<"song_data", "/", "*", "/", "*", "/", "*", "/", "*.json">>, EtlSep)
    IN  << Stmt("song", "stage_json_data", "stage_song_data", "stage", path, <<>>, FALSE, <<>>),
           Stmt("song", "execute_sql", "create_dim_songs", "transform", <<>>, <<>>, FALSE, <<>>),
           Stmt("song", "execute_sql", "profile_query(song_id)", "profile", <<>>, <<>>, FALSE, <<>>),
           Stmt("song", "show", "1", "profile", <<>>, <<>>, FALSE, <<>>),
           Stmt("song", "write_parquet_files", "dim_songs", "write", <<>>, output, TRUE,
                <<"year", "artist_name">>),
           Stmt("song", "execute_sql", "create_dim_artists", "transform", <<>>, <<>>, FALSE, <<>>),
           Stmt("song", "execute_sql", "profile_query(artist_id)", "profile", <<>>, <<>>, FALSE, <<>>),
           Stmt("song", "show", "1", "profile", <<>>, <<>>, FALSE, <<>>),
           Stmt("song", "write_parquet_files", "dim_artists", "write", <<>>, output, FALSE, <<>>) >>

\* variant: the time table is written under the users table's name
ProcessLogDataSameTable(input_data, output) ==
    LET path == OsPathJoin(input_data,
                           <<"log_data", "/", "*", "/", "*", "/", "*.json">>, EtlSep)
    IN  << Stmt("log", "stage_json_data", "stage_log_data", "stage", path, <<>>, FALSE, <<>>),
           Stmt("log", "execute_sql", "create_dim_users", "transform", <<>>, <<>>, FALSE, <<>>),
           Stmt("log", "execute_sql", "profile_query(user_id)", "profile", <<>>, <<>>, FALSE, <<>>),
           Stmt("log", "show", "1", "profile", <<>>, <<>>, FALSE, <<>>),
           Stmt("log", "write_parquet_files", "dim_users", "write", <<>>, output, TRUE,
                <<"gender", "level">>),
           Stmt("log", "execute_sql", "create_dim_time", "transform", <<>>, <<>>, FALSE, <<>>),
           Stmt("log", "write_parquet_files", "dim_users", "write", <<>>, output, TRUE,
                <<"year", "month">>),
           Stmt("log", "execute_sql", "create_fact_songplays", "transform", <<>>, <<>>, FALSE, <<>>),
           Stmt("log", "execute_sql", "songplay_test_query", "profile", <<>>, <<>>, FALSE, <<>>),
           Stmt("log", "show", "1", "profile", <<>>, <<>>, FALSE, <<>>),
           Stmt("log", "write_parquet_files", "fact_songplays", "write", <<>>, output, TRUE,
                <<"year", "month">>) >>

\* variant: the users table is written without a partition argument
ProcessLogDataNoPartition(input_data, output) ==
    LET path == OsPathJoin(input_data,
                           <<"log_data", "/", "*", "/", "*", "/", "*.json">>, EtlSep)
    IN  << Stmt("log", "stage_json_data", "stage_log_data", "stage", path, <<>>, FALSE, <<>>),
           Stmt("log", "execute_sql", "create_dim_users", "transform", <<>>, <<>>, FALSE, <<>>),
           Stmt("log", "execute_sql", "profile_query(user_id)", "profile", <<>>, <<>>, FALSE, <<>>),
           Stmt("log", "show", "1", "profile", <<>>, <<>>, FALSE, <<>>),
           Stmt("log", "write_parquet_files", "dim_users", "write", <<>>, output, FALSE, <<>>),
           Stmt("log", "execute_sql", "create_dim_time", "transform", <<>>, <<>>, FALSE, <<>>),
           Stmt("log", "write_parquet_files", "dim_time", "write", <<>>, output, TRUE,
                <<"year", "month">>),
           Stmt("log", "execute_sql", "create_fact_songplays", "transform", <<>>, <<>>, FALSE, <<>>),
           Stmt("log", "execute_sql", "songplay_test_query", "profile", <<>>, <<>>, FALSE, <<>>),
           Stmt("log", "show", "1", "profile", <<>>, <<>>, FALSE, <<>>),
           Stmt("log", "write_parquet_files", "fact_songplays", "write", <<>>, output, TRUE,
                <<"year", "month">>) >>

\* the statements of process_log_data(spark, input_data, output_data)
ProcessLogData(input_data, output) ==
    LET path == OsPathJoin(input_data,
                           <<"log_data", "/", "*", "/", "*", "/", "*.json">>, EtlSep)
    IN  << Stmt("log", "stage_json_data", "stage_log_data", "stage", path, <<>>, FALSE, <<>>),
           Stmt("log", "execute_sql", "create_dim_users", "transform", <<>>, <<>>, FALSE, <<>>),
           Stmt("log", "execute_sql", "profile_query(user_id)", "profile", <<>>, <<>>, FALSE, <<>>),
           Stmt("log", "show", "1", "profile", <<>>, <<>>, FALSE, <<>>),
           Stmt("log", "write_parquet_files", "dim_users", "write", <<>>, output, TRUE,
                <<"gender", "level">>),
           Stmt("log", "execute_sql", "create_dim_time", "transform", <<>>, <<>>, FALSE, <<>>),
           Stmt("log", "write_parquet_files", "dim_time", "write", <<>>, output, TRUE,
                <<"year", "month">>),
           Stmt("log", "execute_sql", "create_fact_songplays", "transform", <<>>, <<>>, FALSE, <<>>),
           Stmt("log", "execute_sql", "songplay_test_query", "profile", <<>>, <<>>, FALSE, <<>>),
           Stmt("log", "show", "1", "profile", <<>>, <<>>, FALSE, <<>>),
           Stmt("log", "write_parquet_files", "fact_songplays", "write", <<>>, output, TRUE,
                <<"year", "month">>) >>

\* variant: main() runs the log pipeline first
MainBodyLogFirst(input_data, output) ==
    ProcessLogData(input_data, output) \o ProcessSongData(input_data, output)

\* main(): process_song_data(...) and then process_log_data(...)
MainBody(input_data, output) ==
    ProcessSongData(input_data, output) \o ProcessLogData(input_data, output)

Program == MainBody(S3_INPUT_DATA, output_data)

\* output_data = os.path.join(S3_OUTPUT_DATA, S3_DATA_LAKE)
OutputData(root, lake) == OsPathJoin(root, lake, EtlSep)

Done(st, on, result) ==
    [pipeline |-> st.pipeline, op |-> st.op, arg |-> st.arg, kind |-> st.kind,
     input |-> st.input, output_path |-> st.output_path, given |-> st.given,
     partition |-> st.partition, on |-> on, result |-> result,
     outcome |-> "returned", error |-> "none"]

Failed(st, on, e) ==
    [pipeline |-> st.pipeline, op |-> st.op, arg |-> st.arg, kind |-> st.kind,
     input |-> st.input, output_path |-> st.output_path, given |-> st.given,
     partition |-> st.partition, on |-> on, result |-> -1,
     outcome |-> "raised", error |-> e]

\* variant: the failing stage is skipped and the run goes on
EtlSwallowed(e) ==
    /\ eerr' = e
    /\ epc' = epc + 1
    /\ UNCHANGED <<estatus, eexit>>

\* nothing in etl.py catches: the exception leaves the pipeline function and
\* main(), and the process exits non-zero
EtlUncaught(e) ==
    /\ eerr' = e
    /\ estatus' = "raised"
    /\ eexit' = 1
    /\ UNCHANGED epc

Running(op) ==
    /\ estatus = "running"
    /\ epc \in 1..Len(Program)
    /\ Program[epc].op = op

\* main(): spark = SparkOperator(); output_data = os.path.join(...)
Main ==
    /\ UNCHANGED svars
    /\ estatus = "running"
    /\ epc = 0
    /\ output_data' = OutputData(S3_OUTPUT_DATA, S3_DATA_LAKE)
    /\ epc' = 1
    /\ UNCHANGED <<S3_INPUT_DATA, S3_OUTPUT_DATA, S3_DATA_LAKE, run, estatus, df, clean_df,
                   shown, etrace, eerr, eexit, pastWrites>>

\* df = spark.stage_json_data(input_data, schema, query, table_name)
StageJsonData ==
    /\ UNCHANGED svars
    /\ Running("stage_json_data")
    /\ LET st == Program[epc]
       IN  \/ /\ df' = st.arg
              /\ etrace' = Append(etrace, Done(st, "none", -1))
              /\ epc' = epc + 1
              /\ UNCHANGED <<estatus, eerr, eexit>>
           \/ \E e \in EngineErrors :
              /\ etrace' = Append(etrace, Failed(st, "none", e))
              /\ EtlUncaught(e)
              /\ UNCHANGED df
    /\ UNCHANGED <<S3_INPUT_DATA, S3_OUTPUT_DATA, S3_DATA_LAKE, run, output_data, clean_df,
                   shown, pastWrites>>

\* spark.execute_sql(df=..., query=...): a transformation of the staged table
\* (assigned to clean_df) or a profiling query over clean_df
ExecuteSql ==
    /\ UNCHANGED svars
    /\ Running("execute_sql")
    /\ LET st == Program[epc]
           on == IF st.kind = "transform" THEN df ELSE clean_df
       IN  \/ /\ st.kind = "transform"
              /\ clean_df' = st.arg
              /\ etrace' = Append(etrace, Done(st, on, -1))
              /\ epc' = epc + 1
              /\ UNCHANGED <<shown, estatus, eerr, eexit>>
           \/ /\ st.kind = "profile"
              /\ \E n \in 0..MaxDup :
                   /\ shown' = n
                   /\ etrace' = Append(etrace, Done(st, on, n))
              /\ epc' = epc + 1
              /\ UNCHANGED <<clean_df, estatus, eerr, eexit>>
           \/ \E e \in EngineErrors :
              /\ etrace' = Append(etrace, Failed(st, on, e))
              /\ EtlUncaught(e)
              /\ UNCHANGED <<clean_df, shown>>
    /\ UNCHANGED <<S3_INPUT_DATA, S3_OUTPUT_DATA, S3_DATA_LAKE, run, output_data, df,
                   pastWrites>>

\* variant: a profiling result above zero aborts the run
ShowGating ==
    /\ UNCHANGED svars
    /\ Running("show")
    /\ LET st == Program[epc]
       IN  /\ etrace' = Append(etrace, Done(st, "profile", shown))
           /\ IF shown > 0
              THEN EtlUncaught("DataQualityError")
              ELSE /\ epc' = epc + 1
                   /\ UNCHANGED <<estatus, eerr, eexit>>
    /\ UNCHANGED <<S3_INPUT_DATA, S3_OUTPUT_DATA, S3_DATA_LAKE, run, output_data, df,
                   clean_df, shown, pastWrites>>

\* .show(1) on the profiling result: prints one row, returns None
Show ==
    /\ UNCHANGED svars
    /\ Running("show")
    /\ LET st == Program[epc]
       IN  \/ /\ etrace' = Append(etrace, Done(st, "profile", shown))
              /\ epc' = epc + 1
              /\ UNCHANGED <<estatus, eerr, eexit>>
           \/ \E e \in EngineErrors :
              /\ etrace' = Append(etrace, Failed(st, "profile", e))
              /\ EtlUncaught(e)
    /\ UNCHANGED <<S3_INPUT_DATA, S3_OUTPUT_DATA, S3_DATA_LAKE, run, output_data, df,
                   clean_df, shown, pastWrites>>

\* spark.write_parquet_files(df=clean_df, output_path, table_name[, partition])
WriteParquetFiles ==
    /\ UNCHANGED svars
    /\ Running("write_parquet_files")
    /\ LET st == Program[epc]
       IN  \/ /\ etrace' = Append(etrace, Done(st, clean_df, -1))
              /\ epc' = epc + 1
              /\ UNCHANGED <<estatus, eerr, eexit>>
           \/ \E e \in EngineErrors :
              /\ etrace' = Append(etrace, Failed(st, clean_df, e))
              /\ EtlUncaught(e)
    /\ UNCHANGED <<S3_INPUT_DATA, S3_OUTPUT_DATA, S3_DATA_LAKE, run, output_data, df,
                   clean_df, shown, pastWrites>>

\* process_log_data returns, main() returns: the process exits with 0
MainReturn ==
    /\ UNCHANGED svars
    /\ estatus = "running"
    /\ epc = Len(Program) + 1
    /\ estatus' = "done"
    /\ eexit' = 0
    /\ UNCHANGED <<S3_INPUT_DATA, S3_OUTPUT_DATA, S3_DATA_LAKE, run, epc, output_data, df,
                   clean_df, shown, etrace, eerr, pastWrites>>

WritesOf(tr) ==
    { [table |-> tr[i].arg, given |-> tr[i].given, partition |-> tr[i].partition] :
        i \in { k \in 1..Len(tr) : tr[k].op = "write_parquet_files" } }

\* the script is invoked again (if __name__ == "__main__": main()): a new
\* process, the same configuration; what earlier runs wrote stays written
Invoke ==
    /\ UNCHANGED svars
    /\ estatus \in {"done", "raised"}
    /\ run < MaxRuns
    /\ run' = run + 1
    /\ pastWrites' = pastWrites \cup WritesOf(etrace)
    /\ epc' = 0
    /\ estatus' = "running"
    /\ output_data' = <<>>
    /\ df' = "none"
    /\ clean_df' = "none"
    /\ shown' = -1
    /\ etrace' = <<>>
    /\ eerr' = "none"
    /\ eexit' = -1
    /\ UNCHANGED <<S3_INPUT_DATA, S3_OUTPUT_DATA, S3_DATA_LAKE>>

\* no deploy script is running
DeployIdle ==
    /\ os_sep = "/"
    /\ cwd = <<"/">>
    /\ files = {}
    /\ scanRev = FALSE
    /\ entry = "none"
    /\ codeBucket = "b1"
    /\ lakeBucket = "b2"
    /\ owned = {}
    /\ spc = "idle"
    /\ Fresh

\* the first invocation of the ETL script
InitEtl ==
    /\ DeployIdle
    /\ S3_INPUT_DATA \in InputRoots
    /\ S3_OUTPUT_DATA \in OutputRoots
    /\ S3_DATA_LAKE \in LakeNames
    /\ run = 1
    /\ epc = 0
    /\ estatus = "running"
    /\ output_data = <<>>
    /\ df = "none"
    /\ clean_df = "none"
    /\ shown = -1
    /\ etrace = <<>>
    /\ eerr = "none"
    /\ eexit = -1
    /\ pastWrites = {}

NextEtl ==
    \/ Main
    \/ StageJsonData
    \/ ExecuteSql
    \/ Show
    \/ WriteParquetFiles
    \/ MainReturn
    \/ Invoke

SpecEtl == InitEtl /\ [][NextEtl]_vars

\* ------------------------------------------------------------- properties
Last(s) == s[Len(s)]

IsPrefix(a, b) == Len(a) <= Len(b) /\ \A i \in 1..Len(a) : a[i] = b[i]

IsWrite(r) == r.op = "write_parquet_files"

Writes == SelectSeq(etrace, IsWrite)

TableOrder == <<"dim_songs", "dim_artists", "dim_users", "dim_time", "fact_songplays">>

Tables == {TableOrder[i] : i \in 1..Len(TableOrder)}

\* C1: the writes of an ETL run happen in the order dim_songs, dim_artists,
\* dim_users, dim_time, fact_songplays, and every operation of the log pipeline
\* starts only after the dim_artists write of the song pipeline has returned.
C1_PipelineOrder ==
    /\ IsPrefix([i \in 1..Len(Writes) |-> Writes[i].arg], TableOrder)
    /\ \A i \in 1..Len(etrace) :
         etrace[i].pipeline = "log" =>
           \E j \in 1..(i - 1) :
              /\ IsWrite(etrace[j])
              /\ etrace[j].arg = "dim_artists"
              /\ etrace[j].outcome = "returned"

C1_Witness ==
    /\ estatus = "done"
    /\ [i \in 1..Len(Writes) |-> Writes[i].arg] = TableOrder

StageId(r) == <<r.pipeline, r.op, r.arg>>

\* C5: a failing stage halts the ETL run: it is the last stage executed, it is
\* not retried, every stage before it returned, the error it raised is the one
\* that leaves the process, and a run that does not fail performs every stage.
C5_HaltAtFirstFailure ==
    /\ \A i \in 1..Len(etrace) :
         /\ i <= Len(Program)
         /\ StageId(etrace[i]) = StageId(Program[i])
         /\ i < Len(etrace) => etrace[i].outcome = "returned"
    /\ estatus = "running" =>
         /\ Len(etrace) = (IF epc = 0 THEN 0 ELSE epc - 1)
         /\ \A i \in 1..Len(etrace) : etrace[i].outcome = "returned"
         /\ eerr = "none"
    /\ estatus = "raised" =>
         /\ etrace # <<>>
         /\ Last(etrace).outcome = "raised"
         /\ eerr = Last(etrace).error
         /\ eerr \in EngineErrors
         /\ eexit = 1
    /\ estatus = "done" =>
         /\ Len(etrace) = Len(Program)
         /\ \A i \in 1..Len(etrace) : etrace[i].outcome = "returned"
         /\ eerr = "none"
         /\ eexit = 0

C5_Witness ==
    /\ estatus = "raised"
    /\ Last(etrace).pipeline = "log"
    /\ Last(etrace).op = "show"
    /\ eerr = "Py4JJavaError"

\* C6: profiling does not gate: after a profiling result has been shown,
\* whatever it is, the next stage is the write of the profiled table, and the
\* stages a run executes are the stages of main() in order.
C6_ProfilingNotGating ==
    \A i \in 1..Len(etrace) :
       (etrace[i].op = "show" /\ etrace[i].outcome = "returned") =>
          /\ etrace[i].result \in 0..MaxDup
          /\ i + 1 <= Len(Program)
          /\ IsWrite(Program[i + 1])
          /\ i = Len(etrace) => (estatus = "running" /\ epc = i + 1)
          /\ i < Len(etrace) =>
               /\ IsWrite(etrace[i + 1])
               /\ etrace[i + 1].on = etrace[i - 1].on
               /\ \/ estatus # "done"
                  \/ /\ Len(etrace) = Len(Program)
                     /\ \A k \in (i + 1)..Len(etrace) :
                          StageId(etrace[k]) = StageId(Program[k])

C6_Witness ==
    /\ estatus = "done"
    /\ \E i \in 1..Len(etrace) :
         /\ etrace[i].op = "show"
         /\ etrace[i].result > 0
         /\ etrace[i - 1].arg = "profile_query(song_id)"
         /\ etrace[i + 1].arg = "dim_songs"

\* os.path.join of the output root and the data-lake name, spelled out
ExpectedOutputPath ==
    IF Last(S3_OUTPUT_DATA) = "/" THEN S3_OUTPUT_DATA \o S3_DATA_LAKE
    ELSE S3_OUTPUT_DATA \o <<"/">> \o S3_DATA_LAKE

\* C7: a completed ETL run calls write_parquet_files exactly once for each of
\* the five tables and for no other table, each time with the output root
\* joined with the data-lake name as output path.
C7_FiveWritesOnce ==
    estatus = "done" =>
       /\ \A t \in Tables : Cardinality({i \in 1..Len(Writes) : Writes[i].arg = t}) = 1
       /\ \A i \in 1..Len(Writes) :
            /\ Writes[i].arg \in Tables
            /\ Writes[i].outcome = "returned"
            /\ Writes[i].output_path = ExpectedOutputPath

C7_Witness ==
    /\ estatus = "done"
    /\ Len(Writes) = 5
    /\ Last(S3_OUTPUT_DATA) = "/"
    /\ run = 2

\* C8 as stated: every write_parquet_files call carries a non-empty partition
\* column list, the same for a given table in every run.
C8_Original ==
    /\ \A i \in 1..Len(Writes) : Writes[i].given /\ Writes[i].partition # <<>>
    /\ \A w \in pastWrites : \A i \in 1..Len(Writes) :
         Writes[i].arg = w.table => Writes[i].partition = w.partition

\* C8 as amended: the writes of dim_songs, dim_users, dim_time and
\* fact_songplays carry a non-empty partition column list, the write of
\* dim_artists passes no partition argument, and what a table's write passes
\* is the same in every run.
C8_PartitionsFixed ==
    /\ \A i \in 1..Len(Writes) :
         IF Writes[i].arg = "dim_artists"
         THEN ~Writes[i].given
         ELSE Writes[i].given /\ Writes[i].partition # <<>>
    /\ \A w \in pastWrites : \A i \in 1..Len(Writes) :
         Writes[i].arg = w.table =>
            /\ Writes[i].given = w.given
            /\ Writes[i].partition = w.partition

C8_Witness ==
    /\ run = 2
    /\ {w.table : w \in pastWrites} = Tables
    /\ \E i \in 1..Len(Writes) : Writes[i].arg = "dim_artists"
    /\ \E i \in 1..Len(Writes) : Writes[i].arg = "fact_songplays"

IsCreateBucket(c) == c.step = "create_bucket"

\* C2: when the provider answers create_bucket with BucketAlreadyOwnedByYou,
\* create_bucket does not raise: it logs an informational message and returns,
\* and the caller's next step runs.
C2_AlreadyOwnedSwallowed ==
    \A i \in 1..Len(calls) :
       (IsCreateBucket(calls[i]) /\ calls[i].provider = "BucketAlreadyOwnedByYou") =>
          /\ calls[i].outcome = "returned"
          /\ s3err # "BucketAlreadyOwnedByYou"
          /\ \E k \in 1..Len(log) :
               log[k] = [level |-> "INFO", msg |-> "already exists!", bucket |-> calls[i].arg]
          /\ \A k \in 1..Len(log) : log[k].level = "INFO"
          /\ i = Len(calls) =>
               /\ spc = (IF i = 3 THEN "create_bucket_lake" ELSE "call_deploy_code")
               /\ s3err = "none"
               /\ exitCode = -1

C2_Witness ==
    \E i \in 1..Len(calls) :
       /\ IsCreateBucket(calls[i])
       /\ calls[i].provider = "BucketAlreadyOwnedByYou"
       /\ i < Len(calls)
       /\ calls[i + 1].provider = "ok"

\* C9: when the provider answers create_bucket with any other error,
\* create_bucket raises that same error and the deploy run executes no later
\* step: no further bucket creation, no deploy_code, no create_emr_cluster.
C9_OtherErrorsPropagate ==
    \A i \in 1..Len(calls) :
       (IsCreateBucket(calls[i]) /\ calls[i].provider \in ProviderErrors) =>
          /\ calls[i].outcome = "raised"
          /\ i = Len(calls)
          /\ spc = "raised"
          /\ s3err = calls[i].provider
          /\ exitCode = 1
          /\ attempts = <<>>
          /\ \A j \in 1..Len(calls) : calls[j].step \notin {"deploy_code", "create_emr_cluster"}

C9_Witness ==
    /\ spc = "raised"
    /\ Len(calls) = 3
    /\ IsCreateBucket(calls[3])
    /\ calls[3].provider = "AccessDenied"
    /\ s3err = "AccessDenied"

DeployOrder == <<"create_role", "attach_role_policies", "create_bucket", "create_bucket",
                 "deploy_code", "create_emr_cluster">>

\* C4: a deploy run in which no provider call fails performs create_role,
\* attach_role_policies, create_bucket(code bucket), create_bucket(data-lake
\* bucket), deploy_code(code bucket), create_emr_cluster, once each in this
\* order, and exits with 0.
C4_DeployRunsAllSteps ==
    (spc \in {"done", "raised"} /\ faults = <<>>) =>
       /\ spc = "done"
       /\ exitCode = 0
       /\ [i \in 1..Len(calls) |-> calls[i].step] = DeployOrder
       /\ calls[3].arg = codeBucket
       /\ calls[4].arg = lakeBucket
       /\ calls[5].arg = codeBucket
       /\ \A i \in 1..Len(calls) : calls[i].outcome = "returned"

RECURSIVE JoinWith(_, _)
JoinWith(comps, sep) ==
    IF comps = <<>> THEN <<>>
    ELSE <<comps[1], sep>> \o JoinWith(Tail(comps), sep)

\* path of a file relative to the working directory, separated by '/'
ExpectedKey(f) == JoinWith(f.dir, "/") \o f.name

\* os.path.splitext(name)[1]: from the last dot, unless only dots precede it
SplitExt(name) ==
    LET dots == {i \in 1..Len(name) : name[i] = "."}
        last == CHOOSE i \in dots : \A j \in dots : j <= i
    IN  IF dots = {} THEN <<>>
        ELSE IF \E k \in 1..(last - 1) : name[k] # "."
             THEN Slice(name, last, Len(name))
             ELSE <<>>

HasDeclaredExt(name) == SplitExt(name) \in { <<".", "c", "f", "g">>, <<".", "p", "y">> }

\* C3: a deploy_code call that returns has uploaded exactly the files whose
\* extension is cfg or py, each once, under its path relative to the working
\* directory with '/' as separator; with no such file it uploads nothing.
C3_KeysAreRelativePaths ==
    spc = "returned" =>
       /\ {uploads[i].key : i \in 1..Len(uploads)}
             = {ExpectedKey(f) : f \in {g \in files : HasDeclaredExt(g.name)}}
       /\ \A i \in 1..Len(uploads) :
            /\ HasDeclaredExt(uploads[i].file.name)
            /\ uploads[i].key = ExpectedKey(uploads[i].file)
       /\ Len(uploads) = Cardinality({g \in files : HasDeclaredExt(g.name)})

\* C10: when an upload fails, deploy_code raises that error, attempts no
\* further upload and leaves what it uploaded in the bucket: the uploads made
\* are a prefix, in walk order, of the uploads of a complete call, and no file
\* is uploaded more than once.
C10_FailedDeployKeepsPrefix ==
    /\ IsPrefix(uploads, plan)
    /\ IsPrefix(attempts, plan)
    /\ \A i, j \in 1..Len(attempts) : attempts[i].file = attempts[j].file => i = j
    /\ Len(attempts) \in {Len(uploads), Len(uploads) + 1}
    /\ Len(attempts) = Len(uploads) + 1 =>
         /\ spc = "raised"
         /\ faults # <<>>
         /\ s3err = Last(faults)
         /\ Last(calls).outcome = "raised"
    /\ spc \in {"raised", "returned"} => Len(uploads) = idx - 1

C10_Witness ==
    /\ spc = "raised"
    /\ Len(uploads) = 1
    /\ Len(plan) = 2
    /\ s3err = "AccessDenied"

====
